---------------------------- MODULE Spec2Model ----------------------------
(***************************************************************************)
(* Duplicate-movie detection engine of find_video_duplicates:              *)
(* MovieDetector (src/src/utils/movie_detector.py), and the navigation     *)
(* over the pairs found, PairNavigationManager                             *)
(* (src/src/utils/ui_components.py).                                       *)
(*                                                                         *)
(* Titles are sequences of one-character strings.  A similarity score is   *)
(* kept as the exact fraction num/den that SequenceMatcher.ratio() rounds  *)
(* to a float; a threshold is kept in hundredths (80 stands for 0.8).      *)
(* Durations are whole seconds.                                            *)
(***************************************************************************)
EXTENDS Integers, Sequences, FiniteSets, TLC

(***************************************************************************)
(* Bounds of the model.                                                    *)
(***************************************************************************)
\* longest record list handed to encontrar_duplicados
MaxPeliculas == 4

\* longest title handed to similitud_titulos
MaxLargo == 3

\* most pieces a file name handed to the parser is made of
MaxPiezas == 3

\* most PB in a byte count handed to formatear_tamaño
MaxPB == 6

\* longest list of pairs handed to the PairNavigationManager
MaxPares == 3

(***************************************************************************)
(* Characters: str.lower(), and the regex classes \w and \s.               *)
(***************************************************************************)
Mayusculas == <<"A","B","C","D","E","F","G","H","I","J","K","L","M",
                "N","O","P","Q","R","S","T","U","V","W","X","Y","Z">>
Minusculas == <<"a","b","c","d","e","f","g","h","i","j","k","l","m",
                "n","o","p","q","r","s","t","u","v","w","x","y","z">>
Digitos == {"0","1","2","3","4","5","6","7","8","9"}

Rango(s) == {s[i] : i \in 1..Len(s)}

\* str.lower() on one character
lower_char(c) ==
    IF c \in Rango(Mayusculas)
    THEN Minusculas[CHOOSE i \in 1..Len(Mayusculas) : Mayusculas[i] = c]
    ELSE c

\* str.lower()
lower(s) == [i \in 1..Len(s) |-> lower_char(s[i])]

\* \s
EsEspacio(c) == c = " "

\* \w
EsPalabra(c) == c \in Rango(Mayusculas) \cup Rango(Minusculas) \cup Digitos \cup {"_"}

\* str.split(): the maximal runs of non-whitespace characters, in order
RECURSIVE split_desde(_, _, _)
split_desde(s, i, actual) ==
    IF i > Len(s)
    THEN IF actual = <<>> THEN <<>> ELSE <<actual>>
    ELSE IF EsEspacio(s[i])
         THEN IF actual = <<>>
              THEN split_desde(s, i + 1, <<>>)
              ELSE <<actual>> \o split_desde(s, i + 1, <<>>)
         ELSE split_desde(s, i + 1, Append(actual, s[i]))

split(s) == split_desde(s, 1, <<>>)

\* ' '.join(palabras)
RECURSIVE join(_)
join(palabras) ==
    IF palabras = <<>> THEN <<>>
    ELSE IF Len(palabras) = 1 THEN palabras[1]
    ELSE palabras[1] \o <<" ">> \o join(Tail(palabras))

\* str.strip()
RECURSIVE lstrip(_)
lstrip(s) == IF s # <<>> /\ EsEspacio(s[1]) THEN lstrip(Tail(s)) ELSE s

RECURSIVE rstrip(_)
rstrip(s) ==
    IF s # <<>> /\ EsEspacio(s[Len(s)]) THEN rstrip(SubSeq(s, 1, Len(s) - 1)) ELSE s

strip(s) == rstrip(lstrip(s))

(***************************************************************************)
(* normalizar_titulo                                                       *)
(***************************************************************************)
articulos == { <<"e","l">>, <<"l","a">>, <<"l","o","s">>, <<"l","a","s">>,
               <<"u","n">>, <<"u","n","a">>, <<"t","h","e">>, <<"a">>, <<"a","n">> }

\* re.sub(r'[^\w\s]', '', s)
quitar_especiales(s) == SelectSeq(s, LAMBDA c : EsPalabra(c) \/ EsEspacio(c))

normalizar_titulo(titulo) ==
    LET palabras == SelectSeq(split(lower(titulo)), LAMBDA p : p \notin articulos)
    IN  strip(quitar_especiales(join(palabras)))

(***************************************************************************)
(* extraer_año and extraer_titulo_pelicula.  A position is the 1-based     *)
(* index of a character; re.search returns the leftmost match.             *)
(***************************************************************************)
Maximo(S) == CHOOSE x \in S : \A y \in S : y <= x
Minimo(S) == CHOOSE x \in S : \A y \in S : x <= y

\* \d{4} at positions i..i+3
cuatro_digitos(s, i) ==
    i >= 1 /\ i + 3 <= Len(s) /\ \A k \in 0..3 : s[i + k] \in Digitos

\* int() of one digit, and of the four digits at i..i+3
valor_digito(c) ==
    CASE c = "0" -> 0 [] c = "1" -> 1 [] c = "2" -> 2 [] c = "3" -> 3 [] c = "4" -> 4
      [] c = "5" -> 5 [] c = "6" -> 6 [] c = "7" -> 7 [] c = "8" -> 8 [] c = "9" -> 9

valor(s, i) ==
    1000 * valor_digito(s[i]) + 100 * valor_digito(s[i + 1])
        + 10 * valor_digito(s[i + 2]) + valor_digito(s[i + 3])

\* \(\d{4}\) or \[\d{4}\] with its opening character at i
entre(s, i, abre, cierra) ==
    /\ i >= 1
    /\ i + 5 <= Len(s)
    /\ s[i] = abre
    /\ cuatro_digitos(s, i + 1)
    /\ s[i + 5] = cierra

\* \b\d{4}\b with its first digit at i
palabra_de_digitos(s, i) ==
    /\ cuatro_digitos(s, i)
    /\ (i = 1 \/ ~EsPalabra(s[i - 1]))
    /\ (i + 4 > Len(s) \/ ~EsPalabra(s[i + 4]))

\* patrones_año: \((\d{4})\), \[(\d{4})\], \b(\d{4})\b
patrones_anio == <<"parentesis", "corchetes", "palabra">>

\* the pattern matches with group 1, the four digits, starting at i
coincide_anio(patron, s, i) ==
    CASE patron = "parentesis" -> entre(s, i - 1, "(", ")")
      [] patron = "corchetes" -> entre(s, i - 1, "[", "]")
      [] patron = "palabra" -> palabra_de_digitos(s, i)

\* re.search(patron, nombre_archivo): where group 1 of the leftmost match
\* starts, 0 when there is no match
buscar_anio(patron, s) ==
    LET P == {i \in 1..Len(s) : coincide_anio(patron, s, i)}
    IN  IF P = {} THEN 0 ELSE Minimo(P)

\* 1900 <= año <= 2030
anio_valido(anio) == 1900 <= anio /\ anio <= 2030

\* for patron in patrones_año: the first pattern whose leftmost match is a
\* valid year gives the result; return 0 after the loop
RECURSIVE extraer_anio_desde(_, _)
extraer_anio_desde(s, n) ==
    IF n > Len(patrones_anio) THEN 0
    ELSE LET i == buscar_anio(patrones_anio[n], s)
         IN  IF i # 0 /\ anio_valido(valor(s, i))
             THEN valor(s, i)
             ELSE extraer_anio_desde(s, n + 1)

extraer_anio(nombre_archivo) == extraer_anio_desde(nombre_archivo, 1)

\* Path(nombre_archivo).stem: the name without its last suffix
stem(nombre) ==
    LET puntos == {i \in 1..Len(nombre) : nombre[i] = "."}
    IN  IF puntos = {} THEN nombre
        ELSE LET i == Maximo(puntos)
             IN  IF 1 < i /\ i < Len(nombre) THEN SubSeq(nombre, 1, i - 1) ELSE nombre

solo_espacios(s, desde, hasta) == \A i \in desde..hasta : EsEspacio(s[i])

\* variant: the 'Title - rest' rule is tried first
patrones_titulo_al_reves == <<"guion", "numero", "corchetes", "parentesis">>

\* patrones_titulo: ^(.+?)\s*\(\d{4}\), ^(.+?)\s*\[\d{4}\], ^(.+?)\s*\d{4},
\* ^(.+?)(?:\s*-\s*.+)?$
patrones_titulo == <<"parentesis", "corchetes", "numero", "guion">>

\* the pattern matches with group 1 being the first k characters, k >= 1
coincide_titulo(patron, s, k) ==
    CASE patron = "parentesis" ->
            \E q \in (k + 1)..Len(s) : solo_espacios(s, k + 1, q - 1) /\ entre(s, q, "(", ")")
      [] patron = "corchetes" ->
            \E q \in (k + 1)..Len(s) : solo_espacios(s, k + 1, q - 1) /\ entre(s, q, "[", "]")
      [] patron = "numero" ->
            \E q \in (k + 1)..Len(s) : solo_espacios(s, k + 1, q - 1) /\ cuatro_digitos(s, q)
      [] patron = "guion" ->
            \/ k = Len(s)
            \/ \E q \in (k + 1)..(Len(s) - 1) : solo_espacios(s, k + 1, q - 1) /\ s[q] = "-"

\* re.search(patron, titulo): the length of the lazy group 1, 0 when there
\* is no match
buscar_titulo(patron, s) ==
    LET K == {k \in 1..Len(s) : coincide_titulo(patron, s, k)}
    IN  IF K = {} THEN 0 ELSE Minimo(K)

\* group(1).strip() of the first pattern that matches; the stem when none does
RECURSIVE titulo_por_patron(_, _)
titulo_por_patron(s, n) ==
    IF n > Len(patrones_titulo) THEN s
    ELSE LET k == buscar_titulo(patrones_titulo[n], s)
         IN  IF k # 0 THEN strip(SubSeq(s, 1, k)) ELSE titulo_por_patron(s, n + 1)

\* re.sub(r'[._-]', ' ', titulo)
sin_separadores(s) ==
    [i \in 1..Len(s) |-> IF s[i] \in {".", "_", "-"} THEN " " ELSE s[i]]

\* re.sub(r'\s+', ' ', titulo)
RECURSIVE colapsar_espacios(_)
colapsar_espacios(s) ==
    IF s = <<>> THEN <<>>
    ELSE IF EsEspacio(Head(s))
         THEN IF Len(s) > 1 /\ EsEspacio(s[2])
              THEN colapsar_espacios(Tail(s))
              ELSE <<" ">> \o colapsar_espacios(Tail(s))
         ELSE <<Head(s)>> \o colapsar_espacios(Tail(s))

extraer_titulo_pelicula(nombre_archivo) ==
    strip(colapsar_espacios(sin_separadores(
        titulo_por_patron(stem(nombre_archivo), 1))))

(***************************************************************************)
(* formatear_tamaño.  A byte count is kept as its six digits in base 1024, *)
(* lowest first: cifras[i] counts units of 1024^(i-1), so that cifras[6]   *)
(* counts PB.  Counts stay below 2^53, which a float holds exactly, and    *)
(* dividing by 1024.0 is then exact: it moves the point by one digit.  The *)
(* string returned is kept as the number it shows, in tenths, and the unit.*)
(***************************************************************************)
Base == 1024

\* the digits of a small integer
en_cifras(n) ==
    <<n % Base, (n \div Base) % Base, n \div (Base * Base), 0, 0, 0>>

\* for unidad in ['B', 'KB', 'MB', 'GB', 'TB']
unidades == <<"B", "KB", "MB", "GB", "TB">>

\* variant: bytes_size <= 1024.0
no_mayor_que_1024(cifras, divisiones) ==
    \/ \A i \in (divisiones + 2)..Len(cifras) : cifras[i] = 0
    \/ /\ divisiones + 2 <= Len(cifras)
       /\ cifras[divisiones + 2] = 1
       /\ \A i \in 1..Len(cifras) : i # divisiones + 2 => cifras[i] = 0

\* bytes_size < 1024.0, bytes_size having been divided by 1024.0 so many times
menor_que_1024(cifras, divisiones) ==
    \A i \in (divisiones + 2)..Len(cifras) : cifras[i] = 0

\* ten times the fraction 0.c[k] ... c[1] (base 1024): its integer part and
\* the digits of the rest, lowest first
RECURSIVE por_diez(_, _, _, _, _)
por_diez(cifras, i, k, acarreo, resto) ==
    IF i > k THEN [entero |-> acarreo, resto |-> resto]
    ELSE LET t == 10 * cifras[i] + acarreo
         IN  por_diez(cifras, i + 1, k, t \div Base, Append(resto, t % Base))

\* the rest against one half: -1 below, 0 equal, 1 above
contra_la_mitad(resto) ==
    LET k == Len(resto)
    IN  IF k = 0 THEN -1
        ELSE IF resto[k] > Base \div 2 THEN 1
        ELSE IF resto[k] < Base \div 2 THEN -1
        ELSE IF \E i \in 1..(k - 1) : resto[i] # 0 THEN 1
        ELSE 0

\* f"{bytes_size:.1f}", bytes_size having been divided by 1024.0 so many
\* times: the tenths shown, the exact value rounded half to even
un_decimal(cifras, divisiones) ==
    LET d == por_diez(cifras, 1, divisiones, 0, <<>>)
        abajo == 10 * cifras[divisiones + 1] + d.entero
        lado == contra_la_mitad(d.resto)
    IN  IF lado > 0 \/ (lado = 0 /\ abajo % 2 = 1) THEN abajo + 1 ELSE abajo

\* the loop over the units, and the return after it
RECURSIVE bucle_unidades(_, _)
bucle_unidades(cifras, n) ==
    IF n > Len(unidades)
    THEN [decimas |-> un_decimal(cifras, n - 1), unidad |-> "PB"]
    ELSE IF menor_que_1024(cifras, n - 1)
         THEN [decimas |-> un_decimal(cifras, n - 1), unidad |-> unidades[n]]
         ELSE bucle_unidades(cifras, n + 1)

formatear_tamanio(bytes_size) == bucle_unidades(bytes_size, 1)

(***************************************************************************)
(* difflib.SequenceMatcher(None, a, b).ratio(), as used by                 *)
(* similitud_titulos: no junk, and autojunk is inert below 200 characters. *)
(* Indices are those of the Python code (0-based, half-open ranges).       *)
(***************************************************************************)
\* length of the longest common run that ends at a[i], b[j] inside the ranges
RECURSIVE sufijo_comun(_, _, _, _, _, _)
sufijo_comun(a, b, i, j, alo, blo) ==
    IF i < alo \/ j < blo THEN 0
    ELSE IF a[i + 1] # b[j + 1] THEN 0
    ELSE 1 + sufijo_comun(a, b, i - 1, j - 1, alo, blo)

\* the longest block a[i:i+k] == b[j:j+k]; of the longest ones, the first
\* in a, and of those the first in b (k is replaced only when it grows)
find_longest_match(a, b, alo, ahi, blo, bhi) ==
    LET fines == (alo..(ahi - 1)) \X (blo..(bhi - 1))
        k(f) == sufijo_comun(a, b, f[1], f[2], alo, blo)
        bestsize == IF fines = {} THEN 0 ELSE Maximo({k(f) : f \in fines})
    IN  IF bestsize = 0
        THEN [i |-> alo, j |-> blo, size |-> 0]
        ELSE LET mejores == {f \in fines : k(f) = bestsize}
                 fi == Minimo({f[1] : f \in mejores})
                 fj == Minimo({f[2] : f \in {g \in mejores : g[1] = fi}})
             IN  [i |-> fi - bestsize + 1, j |-> fj - bestsize + 1, size |-> bestsize]

\* sum of the sizes of get_matching_blocks(): the longest block, then the
\* same search to its left and to its right
RECURSIVE matches(_, _, _, _, _, _)
matches(a, b, alo, ahi, blo, bhi) ==
    LET m == find_longest_match(a, b, alo, ahi, blo, bhi)
    IN  IF m.size = 0 THEN 0
        ELSE m.size
             + (IF alo < m.i /\ blo < m.j
                THEN matches(a, b, alo, m.i, blo, m.j) ELSE 0)
             + (IF m.i + m.size < ahi /\ m.j + m.size < bhi
                THEN matches(a, b, m.i + m.size, ahi, m.j + m.size, bhi) ELSE 0)

\* variant: 1.0 as soon as one of the two strings is empty
ratio_con_alguno_vacio(a, b) ==
    IF Len(a) > 0 /\ Len(b) > 0
    THEN [num |-> 2 * matches(a, b, 0, Len(a), 0, Len(b)), den |-> Len(a) + Len(b)]
    ELSE [num |-> 1, den |-> 1]

\* variant: 0.0 when length is 0
ratio_vacio_cero(a, b) ==
    LET length == Len(a) + Len(b)
    IN  IF length > 0
        THEN [num |-> 2 * matches(a, b, 0, Len(a), 0, Len(b)), den |-> length]
        ELSE [num |-> 0, den |-> 1]

\* _calculate_ratio: 2.0 * matches / length, and 1.0 when length is 0
ratio(a, b) ==
    LET length == Len(a) + Len(b)
    IN  IF length > 0
        THEN [num |-> 2 * matches(a, b, 0, Len(a), 0, Len(b)), den |-> length]
        ELSE [num |-> 1, den |-> 1]

(***************************************************************************)
(* similitud_titulos                                                       *)
(***************************************************************************)
\* variant: the titles are compared as they are
similitud_sin_normalizar(titulo1, titulo2) == ratio(titulo1, titulo2)

similitud_titulos(titulo1, titulo2) ==
    ratio(normalizar_titulo(titulo1), normalizar_titulo(titulo2))

(***************************************************************************)
(* Records (the dictionaries built by analizar_archivo) and the inputs of  *)
(* the model.  A record is identified by its path, 'archivo'.              *)
(***************************************************************************)
\* the files a record list is drawn from; the index is the path
Catalogo == <<
    [titulo |-> <<"a","b","a">>,         anio |-> 1999, duracion |-> 0,    tamanio |-> 4],
    [titulo |-> <<"A"," ","a","b","a">>, anio |-> 1999, duracion |-> 7200, tamanio |-> 2],
    [titulo |-> <<"b","c","a">>,         anio |-> 1999, duracion |-> 9000, tamanio |-> 1],
    [titulo |-> <<"b","a">>,             anio |-> 1999, duracion |-> 7500, tamanio |-> 3],
    [titulo |-> <<"A","b","a","!">>,     anio |-> 0,    duracion |-> 7200, tamanio |-> 2],
    [titulo |-> <<>>,                    anio |-> 0,    duracion |-> 0,    tamanio |-> 0],
    [titulo |-> <<"a","b","a">>,         anio |-> 2000, duracion |-> 0,    tamanio |-> 5],
    [titulo |-> <<"A">>,                 anio |-> 0,    duracion |-> 0,    tamanio |-> 6] >>

Archivos == 1..Len(Catalogo)

Pelicula(f) ==
    [archivo |-> f, titulo |-> Catalogo[f].titulo, anio |-> Catalogo[f].anio,
     duracion |-> Catalogo[f].duracion, tamanio |-> Catalogo[f].tamanio]

\* the files the record lists handed to the grouper are drawn from
ArchivosDeLista == 1..7

\* record lists with pairwise different paths, of at most MaxPeliculas records
Listas ==
    UNION { { [i \in 1..n |-> Pelicula(fs[i])] :
              fs \in {g \in [1..n -> ArchivosDeLista] :
                        \A i, j \in 1..n : i # j => g[i] # g[j]} } :
            n \in 0..MaxPeliculas }

\* thresholds in hundredths: 0.0, 0.5, 0.8, 1.0
Umbrales == {0, 50, 80, 100}

\* the umbral_similitud argument: None, or a threshold
Argumentos ==
    {[dado |-> FALSE, valor |-> 0]} \cup {[dado |-> TRUE, valor |-> u] : u \in Umbrales}

(***************************************************************************)
(* The matching predicate of encontrar_duplicados                          *)
(***************************************************************************)
Abs(x) == IF x < 0 THEN -x ELSE x

\* variant: similitud <= umbral_similitud
supera_umbral_invertido(similitud, umbral) == similitud.num * 100 <= umbral * similitud.den

\* variant: similitud > umbral_similitud
supera_umbral_estricto(similitud, umbral) == similitud.num * 100 > umbral * similitud.den

\* similitud >= umbral_similitud, on the exact fraction
supera_umbral(similitud, umbral) == similitud.num * 100 >= umbral * similitud.den

\* variant: a record without a year is compatible with none
anios_compatibles_sin_comodin(pelicula1, pelicula2) ==
    /\ pelicula1.anio # 0
    /\ pelicula2.anio # 0
    /\ Abs(pelicula1.anio - pelicula2.anio) <= 1

\* años_compatibles: the same year, one year apart, or one of them unknown
anios_compatibles(pelicula1, pelicula2) ==
    \/ pelicula1.anio = 0
    \/ pelicula2.anio = 0
    \/ Abs(pelicula1.anio - pelicula2.anio) <= 1

\* variant: the difference is taken in hours
duracion_compatible_en_horas(pelicula1, pelicula2, cfg) ==
    IF cfg.duration_filter_enabled /\ pelicula1.duracion > 0 /\ pelicula2.duracion > 0
    THEN Abs(pelicula1.duracion - pelicula2.duracion) <= 3600 * cfg.duration_tolerance_minutes
    ELSE TRUE

\* variant: durations compared without the duracion1 > 0 and duracion2 > 0 test
duracion_compatible_sin_ceros(pelicula1, pelicula2, cfg) ==
    IF cfg.duration_filter_enabled
    THEN Abs(pelicula1.duracion - pelicula2.duracion) <= 60 * cfg.duration_tolerance_minutes
    ELSE TRUE

\* diferencia_segundos / 60 <= tolerancia_minutos, when the filter applies
duracion_compatible(pelicula1, pelicula2, cfg) ==
    IF cfg.duration_filter_enabled /\ pelicula1.duracion > 0 /\ pelicula2.duracion > 0
    THEN Abs(pelicula1.duracion - pelicula2.duracion) <= 60 * cfg.duration_tolerance_minutes
    ELSE TRUE

\* similitud_titulos on the titles of the catalogue, evaluated once
Titulos == {Catalogo[f].titulo : f \in Archivos}
TablaSimilitud == [t1 \in Titulos |-> [t2 \in Titulos |-> similitud_titulos(t1, t2)]]
similitud(titulo1, titulo2) == TablaSimilitud[titulo1][titulo2]

\* variant: the duration comparison left out of the final test
es_duplicado_sin_duracion(pelicula1, pelicula2, umbral, cfg) ==
    /\ supera_umbral(similitud(pelicula1.titulo, pelicula2.titulo), umbral)
    /\ anios_compatibles(pelicula1, pelicula2)

es_duplicado(pelicula1, pelicula2, umbral, cfg) ==
    /\ supera_umbral(similitud(pelicula1.titulo, pelicula2.titulo), umbral)
    /\ anios_compatibles(pelicula1, pelicula2)
    /\ duracion_compatible(pelicula1, pelicula2, cfg)

(***************************************************************************)
(* encontrar_duplicados: the year buckets and the three nested loops       *)
(***************************************************************************)
\* variant: one bucket for every record
clave_unica(pelicula) == 0

\* the dictionary key of a record: its year, or 'Sin año' (written 0)
clave(pelicula) == IF pelicula.anio > 0 THEN pelicula.anio ELSE 0

\* the keys of peliculas_por_año in insertion order
RECURSIVE claves(_)
claves(ps) ==
    IF ps = <<>> THEN <<>>
    ELSE LET previas == claves(SubSeq(ps, 1, Len(ps) - 1))
             k == clave(ps[Len(ps)])
         IN  IF k \in Rango(previas) THEN previas ELSE Append(previas, k)

peliculas_por_anio(ps, k) == SelectSeq(ps, LAMBDA p : clave(p) = k)

\* variant: the set keeps the paths grouped by the previous call
procesadas_de_duplicados(det_duplicados) ==
    UNION { {det_duplicados[g][i].archivo : i \in 1..Len(det_duplicados[g])} :
            g \in 1..Len(det_duplicados) }

\* procesadas = set()
procesadas_inicial(det_duplicados) == {}

\* variant: the path is not recorded
marcar_nada(procesadas, archivo) == procesadas

\* procesadas.add(archivo)
marcar(procesadas, archivo) == procesadas \cup {archivo}

\* variant: processed candidates are not skipped
candidato_nunca_procesado(archivo, procesadas) == FALSE

\* if pelicula2['archivo'] in procesadas: continue
candidato_procesado(archivo, procesadas) == archivo \in procesadas

\* variant: the candidate is compared with the last record of the group
ultimo_del_grupo(pelicula1, grupo_duplicados) == grupo_duplicados[Len(grupo_duplicados)]

\* the record the candidate is compared with: pelicula1, the anchor
ancla_de_comparacion(pelicula1, grupo_duplicados) == pelicula1

\* variant: len(grupo_duplicados) >= 1
grupo_valido_desde_uno(grupo_duplicados) == Len(grupo_duplicados) >= 1

\* if len(grupo_duplicados) > 1
grupo_valido(grupo_duplicados) == Len(grupo_duplicados) > 1

\* variant: duplicados.insert(0, grupo_duplicados)
emitir_al_frente(duplicados_, grupo_duplicados) == <<grupo_duplicados>> \o duplicados_

\* duplicados.append(grupo_duplicados)
emitir(duplicados_, grupo_duplicados) == Append(duplicados_, grupo_duplicados)

\* for j, pelicula2 in enumerate(peliculas_año[i+1:], i+1)
RECURSIVE bucle_candidatos(_, _, _, _, _, _)
bucle_candidatos(pelicula1, peliculas_anio, j, st, umbral, cfg) ==
    IF j > Len(peliculas_anio) THEN st
    ELSE LET pelicula2 == peliculas_anio[j]
         IN  IF candidato_procesado(pelicula2.archivo, st.procesadas)
             THEN bucle_candidatos(pelicula1, peliculas_anio, j + 1, st, umbral, cfg)
             ELSE LET ok == es_duplicado(ancla_de_comparacion(pelicula1, st.grupo),
                                         pelicula2, umbral, cfg)
                      ev == [tipo |-> "comparar", ancla |-> pelicula1.archivo,
                             candidato |-> pelicula2.archivo, coincide |-> ok]
                      sig == IF ok
                             THEN [grupo |-> Append(st.grupo, pelicula2),
                                   procesadas |-> marcar(st.procesadas, pelicula2.archivo),
                                   eventos |-> Append(st.eventos, ev)]
                             ELSE [st EXCEPT !.eventos = Append(st.eventos, ev)]
                  IN  bucle_candidatos(pelicula1, peliculas_anio, j + 1, sig, umbral, cfg)

\* for i, pelicula1 in enumerate(peliculas_año)
RECURSIVE bucle_anclas(_, _, _, _, _)
bucle_anclas(peliculas_anio, i, st, umbral, cfg) ==
    IF i > Len(peliculas_anio) THEN st
    ELSE LET pelicula1 == peliculas_anio[i]
         IN  IF pelicula1.archivo \in st.procesadas
             THEN bucle_anclas(peliculas_anio, i + 1, st, umbral, cfg)
             ELSE LET ev == [tipo |-> "ancla", ancla |-> pelicula1.archivo,
                             candidato |-> pelicula1.archivo, coincide |-> TRUE]
                      r == bucle_candidatos(pelicula1, peliculas_anio, i + 1,
                               [grupo |-> <<pelicula1>>,
                                procesadas |-> marcar(st.procesadas, pelicula1.archivo),
                                eventos |-> Append(st.eventos, ev)],
                               umbral, cfg)
                      sig == [duplicados |-> IF grupo_valido(r.grupo)
                                             THEN emitir(st.duplicados, r.grupo)
                                             ELSE st.duplicados,
                              procesadas |-> r.procesadas,
                              eventos |-> r.eventos]
                  IN  bucle_anclas(peliculas_anio, i + 1, sig, umbral, cfg)

\* for año, peliculas_año in peliculas_por_año.items()
RECURSIVE bucle_anios(_, _, _, _, _, _)
bucle_anios(ps, ks, n, st, umbral, cfg) ==
    IF n > Len(ks) THEN st
    ELSE bucle_anios(ps, ks, n + 1,
                     bucle_anclas(peliculas_por_anio(ps, ks[n]), 1, st, umbral, cfg),
                     umbral, cfg)

\* the groups, and the trace of anchors and comparisons, for a non-empty list
agrupar(ps, det_duplicados, umbral, cfg) ==
    bucle_anios(ps, claves(ps), 1,
                [duplicados |-> <<>>, procesadas |-> procesadas_inicial(det_duplicados),
                 eventos |-> <<>>],
                umbral, cfg)

(***************************************************************************)
(* State: a MovieDetector, the settings object as loaded when the detector *)
(* runs, and the folders the detector scans.                               *)
(***************************************************************************)
VARIABLES
    carpeta_raiz,    \* self.carpeta_raiz
    peliculas,       \* self.peliculas
    duplicados,      \* self.duplicados
    settings,        \* detection.duration_filter_enabled / duration_tolerance_minutes
    disco,           \* the folders and the video files that exist
    operacion,       \* the method called last
    retorno,         \* the value returned by encontrar_duplicados, if called last
    retorno_escaneo, \* the value returned by escanear_carpeta, if called last
    estadisticas,    \* the value returned by get_estadisticas, if called last
    eventos,         \* anchors taken and comparisons made by the last call, in order
    llamada,         \* whether encontrar_duplicados was called last, the threshold
                     \* it ran with, and whether the call before it ran with the
                     \* same threshold
    calculo,         \* a call of one of the stateless methods: the method, its
                     \* arguments, whether it has returned, and the value returned
    navegacion       \* what PairNavigationManager (src/src/utils/ui_components.py)
                     \* keeps: st.session_state['pair_navigation'], the session
                     \* keys 'original_total_pairs' and 'duplicados', and the
                     \* runtime counters of settings

vars_detector == <<carpeta_raiz, peliculas, duplicados, settings, disco, operacion,
                   retorno, retorno_escaneo, estadisticas, eventos, llamada>>

vars == <<vars_detector, calculo, navegacion>>

\* self.umbral_similitud = settings.get_similarity_threshold(), 0.8 by default
umbral_similitud == 80

\* settings.get_duration_tolerance_minutes(), 5 by default
duration_tolerance_minutes == 5

\* the loaded configuration: the duration filter on or off
Configuraciones ==
    { [duration_filter_enabled |-> f, duration_tolerance_minutes |-> duration_tolerance_minutes] :
      f \in BOOLEAN }

\* carpeta_raiz = None
Ninguna == "None"

\* the folders a detector is pointed at, and the video files rglob finds in
\* each, in the order it yields them; "falta" does not exist
Carpetas == {"c1", "c2", "vacia", "falta"}
ContenidoDe(carpeta) ==
    CASE carpeta = "c1" -> <<1, 2, 7>>
      [] carpeta = "c2" -> <<5, 6, 8>>
      [] OTHER -> <<>>

DiscoInicial == [carpetas |-> {"c1", "c2", "vacia"}, archivos |-> {1, 2, 5, 6, 7, 8}]

\* the four counters of get_estadisticas
Estadisticas(tp, td, gd, ed) ==
    [total_peliculas |-> tp, total_duplicados |-> td,
     grupos_duplicados |-> gd, espacio_duplicado |-> ed]

\* the values the return variables hold while another method was called last
SinLlamada == [hecha |-> FALSE, umbral |-> 0, repetida |-> FALSE]
SinEstadisticas == Estadisticas(0, 0, 0, 0)
SinCalculo == [funcion |-> "ninguna", hecho |-> FALSE, entrada |-> <<>>, salida |-> <<>>]

\* PairNavigationManager._initialize_session_state, in a session in which
\* no list of pairs was set yet
SesionInicial ==
    [current_pair |-> 0, total_pairs |-> 0, pairs_list |-> <<>>,
     original_total_pairs |-> 0, duplicados |-> <<>>,
     runtime_total_pairs |-> 0, runtime_pairs_deleted |-> 0]

\* MovieDetector.__init__, with a record list in place
Init ==
    /\ carpeta_raiz = Ninguna
    /\ peliculas \in Listas
    /\ duplicados = <<>>
    /\ settings \in Configuraciones
    /\ disco = DiscoInicial
    /\ operacion = "__init__"
    /\ retorno = <<>>
    /\ retorno_escaneo = <<>>
    /\ estadisticas = SinEstadisticas
    /\ eventos = <<>>
    /\ llamada = SinLlamada
    /\ calculo = SinCalculo
    /\ navegacion = SesionInicial

\* if umbral_similitud is None: umbral_similitud = self.umbral_similitud
umbral_efectivo(arg) == IF arg.dado THEN arg.valor ELSE umbral_similitud

\* variant: the buckets are filled by popping the records off self.peliculas
peliculas_vaciadas(ps) == <<>>

\* for pelicula in self.peliculas: the list is read, never assigned or changed
peliculas_recorridas(ps) == ps

\* variant: return self.duplicados
retorno_duplicados_previos(det_duplicados) == det_duplicados

\* if not self.peliculas: return []
retorno_sin_peliculas(det_duplicados) == <<>>

encontrar_duplicados(arg) ==
    LET umbral == umbral_efectivo(arg)
    IN  /\ llamada' = [hecha |-> TRUE, umbral |-> umbral,
                       repetida |-> llamada.hecha /\ llamada.umbral = umbral]
        /\ IF peliculas = <<>>
           THEN /\ retorno' = retorno_sin_peliculas(duplicados)
                /\ eventos' = <<>>
                /\ UNCHANGED <<peliculas, duplicados>>
           ELSE \E r \in {agrupar(peliculas, duplicados, umbral, settings)} :
                /\ duplicados' = r.duplicados
                /\ retorno' = r.duplicados
                /\ eventos' = r.eventos
                /\ peliculas' = peliculas_recorridas(peliculas)
        /\ operacion' = "encontrar_duplicados"
        /\ retorno_escaneo' = <<>>
        /\ estadisticas' = SinEstadisticas
        /\ UNCHANGED <<carpeta_raiz, settings, disco, calculo, navegacion>>

Next == \E arg \in Argumentos : encontrar_duplicados(arg)

Spec == Init /\ [][Next]_vars

(***************************************************************************)
(* The scan lifecycle: set_carpeta_raiz, escanear_carpeta,                 *)
(* encontrar_duplicados and get_estadisticas called in any order on one    *)
(* detector, while files and folders are deleted from the disk.            *)
(***************************************************************************)
\* variant: the duration probe is enabled
analizar_archivo_con_duracion(f) == Pelicula(f)

\* the record of a file; duracion = 0.0, the duration probe being disabled
analizar_archivo(f) == [Pelicula(f) EXCEPT !.duracion = 0]

\* self.carpeta_raiz.rglob('*'), kept to the video files
archivos_de(carpeta, d) == SelectSeq(ContenidoDe(carpeta), LAMBDA f : f \in d.archivos)

\* the list built by the loop of escanear_carpeta
explorar(carpeta, d) ==
    LET fs == archivos_de(carpeta, d)
    IN  [i \in 1..Len(fs) |-> analizar_archivo(fs[i])]

set_carpeta_raiz(carpeta) ==
    /\ carpeta_raiz' = carpeta
    /\ peliculas' = <<>>
    /\ duplicados' = <<>>
    /\ operacion' = "set_carpeta_raiz"
    /\ retorno' = <<>>
    /\ retorno_escaneo' = <<>>
    /\ estadisticas' = SinEstadisticas
    /\ eventos' = <<>>
    /\ llamada' = SinLlamada
    /\ UNCHANGED <<settings, disco, calculo, navegacion>>

\* escanear_carpeta(carpeta_raiz), the argument being None or a folder
escanear_carpeta(arg) ==
    LET raiz == IF arg # Ninguna THEN arg ELSE carpeta_raiz
        \* if carpeta_raiz: self.set_carpeta_raiz(carpeta_raiz)
        previas == IF arg # Ninguna THEN <<>> ELSE peliculas
        previos == IF arg # Ninguna THEN <<>> ELSE duplicados
    IN  /\ carpeta_raiz' = raiz
        /\ duplicados' = previos
        /\ IF raiz = Ninguna \/ raiz \notin disco.carpetas
           THEN \* return [] / return peliculas, the local list still empty
                /\ peliculas' = previas
                /\ retorno_escaneo' = <<>>
           ELSE \E ps \in {explorar(raiz, disco)} :
                /\ peliculas' = ps
                /\ retorno_escaneo' = ps
        /\ operacion' = "escanear_carpeta"
        /\ retorno' = <<>>
        /\ estadisticas' = SinEstadisticas
        /\ eventos' = <<>>
        /\ llamada' = SinLlamada
        /\ UNCHANGED <<settings, disco, calculo, navegacion>>

\* sum(len(grupo) for grupo in self.duplicados)
RECURSIVE total_duplicados(_)
total_duplicados(gs) ==
    IF gs = <<>> THEN 0 ELSE Len(Head(gs)) + total_duplicados(Tail(gs))

\* the sum of pelicula['tamaño'] over a list of records
RECURSIVE suma_tamanios(_)
suma_tamanios(ps) ==
    IF ps = <<>> THEN 0 ELSE Head(ps).tamanio + suma_tamanios(Tail(ps))

\* grupo[1:]
sin_el_primero(grupo) == Tail(grupo)

\* for grupo in self.duplicados: for pelicula in grupo[1:]: += tamaño
RECURSIVE espacio_duplicado(_)
espacio_duplicado(gs) ==
    IF gs = <<>> THEN 0
    ELSE suma_tamanios(sin_el_primero(Head(gs))) + espacio_duplicado(Tail(gs))

\* the counters and 'espacio_duplicado_formateado'
EstadisticasFormateadas(tp, td, gd, ed) ==
    [total_peliculas |-> tp, total_duplicados |-> td,
     grupos_duplicados |-> gd, espacio_duplicado |-> ed,
     espacio_duplicado_formateado |-> formatear_tamanio(en_cifras(ed))]

get_estadisticas ==
    /\ estadisticas' =
          IF peliculas = <<>>
          THEN Estadisticas(0, 0, 0, 0)
          ELSE EstadisticasFormateadas(
                   Len(peliculas), total_duplicados(duplicados),
                   Len(duplicados), espacio_duplicado(duplicados))
    /\ operacion' = "get_estadisticas"
    /\ retorno' = <<>>
    /\ retorno_escaneo' = <<>>
    /\ eventos' = <<>>
    /\ llamada' = SinLlamada
    /\ UNCHANGED <<carpeta_raiz, peliculas, duplicados, settings, disco, calculo, navegacion>>

\* a video file is deleted from the disk, by the application or by the user
borrar_archivo(f) ==
    /\ f \in disco.archivos
    /\ disco' = [disco EXCEPT !.archivos = @ \ {f}]
    /\ operacion' = "borrar_archivo"
    /\ retorno' = <<>>
    /\ retorno_escaneo' = <<>>
    /\ estadisticas' = SinEstadisticas
    /\ eventos' = <<>>
    /\ llamada' = SinLlamada
    /\ UNCHANGED <<carpeta_raiz, peliculas, duplicados, settings, calculo, navegacion>>

\* a folder is deleted from the disk with the files in it
borrar_carpeta(carpeta) ==
    /\ carpeta \in disco.carpetas
    /\ disco' = [carpetas |-> disco.carpetas \ {carpeta},
                 archivos |-> disco.archivos \ Rango(ContenidoDe(carpeta))]
    /\ operacion' = "borrar_carpeta"
    /\ retorno' = <<>>
    /\ retorno_escaneo' = <<>>
    /\ estadisticas' = SinEstadisticas
    /\ eventos' = <<>>
    /\ llamada' = SinLlamada
    /\ UNCHANGED <<carpeta_raiz, peliculas, duplicados, settings, calculo, navegacion>>

\* MovieDetector(carpeta_raiz), the argument being None or a folder
InitCiclo ==
    /\ carpeta_raiz \in {Ninguna} \cup Carpetas
    /\ peliculas = <<>>
    /\ duplicados = <<>>
    /\ settings \in Configuraciones
    /\ disco = DiscoInicial
    /\ operacion = "__init__"
    /\ retorno = <<>>
    /\ retorno_escaneo = <<>>
    /\ estadisticas = SinEstadisticas
    /\ eventos = <<>>
    /\ llamada = SinLlamada
    /\ calculo = SinCalculo
    /\ navegacion = SesionInicial

NextCiclo ==
    \/ \E carpeta \in Carpetas : set_carpeta_raiz(carpeta)
    \/ \E arg \in {Ninguna} \cup Carpetas : escanear_carpeta(arg)
    \/ \E arg \in Argumentos : encontrar_duplicados(arg)
    \/ get_estadisticas
    \/ \E f \in Archivos : borrar_archivo(f)
    \/ \E carpeta \in Carpetas : borrar_carpeta(carpeta)

SpecCiclo == InitCiclo /\ [][NextCiclo]_vars

(***************************************************************************)
(* encontrar_duplicados on the records of a scan: rglob yields the files   *)
(* of a folder in no particular order, and every record has duracion 0.    *)
(***************************************************************************)
\* the files the scanned folder may hold
ArchivosEscaneados == {1, 2, 3, 5, 6, 8}

\* the lists a scan leaves in self.peliculas, of at most MaxPeliculas records
ListasEscaneadas ==
    UNION { { [i \in 1..n |-> analizar_archivo(fs[i])] :
              fs \in {g \in [1..n -> ArchivosEscaneados] :
                        \A i, j \in 1..n : i # j => g[i] # g[j]} } :
            n \in 0..MaxPeliculas }

\* MovieDetector.__init__, with the records of a scan in place
InitEscaneadas ==
    /\ carpeta_raiz = Ninguna
    /\ peliculas \in ListasEscaneadas
    /\ duplicados = <<>>
    /\ settings \in Configuraciones
    /\ disco = DiscoInicial
    /\ operacion = "__init__"
    /\ retorno = <<>>
    /\ retorno_escaneo = <<>>
    /\ estadisticas = SinEstadisticas
    /\ eventos = <<>>
    /\ llamada = SinLlamada
    /\ calculo = SinCalculo
    /\ navegacion = SesionInicial

NextEscaneadas == \E arg \in Argumentos : encontrar_duplicados(arg)

SpecEscaneadas == InitEscaneadas /\ [][NextEscaneadas]_vars

(***************************************************************************)
(* The stateless methods, each called once on arguments drawn from a       *)
(* bounded set, on a detector just constructed.                            *)
(***************************************************************************)
\* MovieDetector(), before any call
DetectorNuevo ==
    /\ carpeta_raiz = Ninguna
    /\ peliculas = <<>>
    /\ duplicados = <<>>
    /\ settings \in Configuraciones
    /\ settings.duration_filter_enabled
    /\ disco = DiscoInicial
    /\ operacion = "__init__"
    /\ retorno = <<>>
    /\ retorno_escaneo = <<>>
    /\ estadisticas = SinEstadisticas
    /\ eventos = <<>>
    /\ llamada = SinLlamada

\* the strings of at most n characters over an alphabet
RECURSIVE Cadenas(_, _)
Cadenas(alfabeto, n) ==
    IF n = 0 THEN {<<>>}
    ELSE LET cortas == Cadenas(alfabeto, n - 1)
         IN  cortas \cup {Append(c, x) : c \in cortas, x \in alfabeto}

\* the titles similitud_titulos is called on: an upper-case stopword letter,
\* two letters and the blank, and three titles with punctuation
TitulosDePrueba ==
    Cadenas({"A", "b", "c", " "}, MaxLargo)
        \cup {<<"!">>, <<"b", "!">>, <<"A", "!">>}

InitTitulos ==
    /\ DetectorNuevo
    /\ navegacion = SesionInicial
    /\ calculo \in {[funcion |-> "similitud_titulos", hecho |-> FALSE,
                     entrada |-> <<titulo1, titulo2>>, salida |-> [num |-> 0, den |-> 1]] :
                    titulo1 \in TitulosDePrueba, titulo2 \in TitulosDePrueba}

\* self.similitud_titulos(titulo1, titulo2) is called and returns
llamar_similitud_titulos ==
    /\ calculo.funcion = "similitud_titulos"
    /\ ~calculo.hecho
    /\ calculo' = [calculo EXCEPT
                      !.hecho = TRUE,
                      !.salida = similitud_titulos(calculo.entrada[1], calculo.entrada[2])]
    /\ UNCHANGED <<vars_detector, navegacion>>

NextTitulos == llamar_similitud_titulos

SpecTitulos == InitTitulos /\ [][NextTitulos]_vars

\* normalizar_titulo is called on a title, and then on what it returned
InitNormalizar ==
    /\ DetectorNuevo
    /\ navegacion = SesionInicial
    /\ calculo \in {[funcion |-> "normalizar_titulo", hecho |-> FALSE,
                     entrada |-> titulo, salida |-> <<>>] :
                    titulo \in TitulosDePrueba}

\* self.normalizar_titulo(titulo) is called and returns; salida lists the
\* values returned so far
llamar_normalizar_titulo ==
    /\ calculo.funcion = "normalizar_titulo"
    /\ Len(calculo.salida) < 2
    /\ LET titulo == IF calculo.salida = <<>> THEN calculo.entrada
                     ELSE calculo.salida[Len(calculo.salida)]
       IN  calculo' = [calculo EXCEPT
                          !.hecho = TRUE,
                          !.salida = Append(@, normalizar_titulo(titulo))]
    /\ UNCHANGED <<vars_detector, navegacion>>

NextNormalizar == llamar_normalizar_titulo

SpecNormalizar == InitNormalizar /\ [][NextNormalizar]_vars

\* the pieces the file names handed to the parser are made of: titles,
\* years in and out of range in the three notations, a quality tag and
\* separators
Piezas ==
    { <<"b">>, <<"b", " ", "c">>, <<" ">>, <<"_">>, <<".">>, <<" ", "-", " ">>,
      <<" ", "(", "2", "0", "1", "0", ")">>, <<"(", "1", "8", "0", "0", ")">>,
      <<"[", "1", "9", "9", "9", "]">>, <<" ", "1", "9", "0", "0">>,
      <<"2", "0", "3", "1">>, <<" ", "1", "0", "8", "0", "p">> }

\* the concatenations of at most n pieces
RECURSIVE Cuerpos(_)
Cuerpos(n) ==
    IF n = 0 THEN {<<>>}
    ELSE LET cortos == Cuerpos(n - 1)
         IN  cortos \cup {c \o p : c \in cortos, p \in Piezas}

\* file names with a video extension
Nombres == {c \o <<".", "m", "k", "v">> : c \in Cuerpos(MaxPiezas)}

InitNombres ==
    /\ DetectorNuevo
    /\ navegacion = SesionInicial
    /\ calculo \in {[funcion |-> "analizar_nombre", hecho |-> FALSE,
                     entrada |-> nombre_archivo,
                     salida |-> [titulo |-> <<>>, anio |-> 0]] :
                    nombre_archivo \in Nombres}

\* analizar_archivo parses the name: self.extraer_titulo_pelicula(nombre_archivo)
\* and self.extraer_año(nombre_archivo)
analizar_nombre ==
    /\ calculo.funcion = "analizar_nombre"
    /\ ~calculo.hecho
    /\ calculo' = [calculo EXCEPT
                      !.hecho = TRUE,
                      !.salida = [titulo |-> extraer_titulo_pelicula(calculo.entrada),
                                  anio |-> extraer_anio(calculo.entrada)]]
    /\ UNCHANGED <<vars_detector, navegacion>>

NextNombres == analizar_nombre

SpecNombres == InitNombres /\ [][NextNombres]_vars

\* the digits the byte counts handed to formatear_tamaño are made of: the
\* ends of a digit's range, and those that put the decimal on a tie
CifrasDePrueba == {0, 1, 256, 512, 1023}

\* byte counts of at most MaxPB PB
Tamanios ==
    {<<c1, c2, c3, c4, c5, c6>> :
        c1 \in CifrasDePrueba, c2 \in CifrasDePrueba, c3 \in CifrasDePrueba,
        c4 \in CifrasDePrueba, c5 \in CifrasDePrueba, c6 \in 0..MaxPB}

InitTamanios ==
    /\ DetectorNuevo
    /\ navegacion = SesionInicial
    /\ calculo \in {[funcion |-> "formatear_tamaño", hecho |-> FALSE,
                     entrada |-> bytes_size,
                     salida |-> [decimas |-> 0, unidad |-> ""]] :
                    bytes_size \in Tamanios}

\* self.formatear_tamaño(bytes_size) is called and returns
llamar_formatear_tamanio ==
    /\ calculo.funcion = "formatear_tamaño"
    /\ ~calculo.hecho
    /\ calculo' = [calculo EXCEPT
                      !.hecho = TRUE,
                      !.salida = formatear_tamanio(calculo.entrada)]
    /\ UNCHANGED <<vars_detector, navegacion>>

NextTamanios == llamar_formatear_tamanio

SpecTamanios == InitTamanios /\ [][NextTamanios]_vars

(***************************************************************************)
(* PairNavigationManager: the index of the pair shown, over the list of    *)
(* pairs kept in the session state.  The methods end with st.rerun(),      *)
(* after every write to the session state.                                 *)
(***************************************************************************)
\* the pairs (dictionaries) the lists are made of
Pares == {"p1", "p2"}

\* the lists handed to set_pairs_list
ListasDePares == Cadenas(Pares, MaxPares)

\* the index handed to go_to_pair
Indices == (0 - 1)..(MaxPares + 1)

InitNavegacion ==
    /\ DetectorNuevo
    /\ navegacion = SesionInicial
    /\ calculo = SinCalculo

\* what a method of the manager leaves alone
sin_tocar_el_detector ==
    UNCHANGED <<carpeta_raiz, peliculas, duplicados, settings, disco, retorno,
                retorno_escaneo, estadisticas, eventos, llamada, calculo>>

set_pairs_list(pairs_list) ==
    /\ navegacion' =
          [navegacion EXCEPT
              !.pairs_list = pairs_list,
              !.total_pairs = Len(pairs_list),
              !.current_pair = IF @ >= Len(pairs_list) THEN 0 ELSE @,
              !.original_total_pairs = Len(pairs_list),
              !.runtime_total_pairs = Len(pairs_list),
              !.runtime_pairs_deleted = 0]
    /\ operacion' = "set_pairs_list"
    /\ sin_tocar_el_detector

go_to_pair(index) ==
    /\ navegacion' =
          IF 0 <= index /\ index < navegacion.total_pairs
          THEN [navegacion EXCEPT !.current_pair = index]
          ELSE navegacion
    /\ operacion' = "go_to_pair"
    /\ sin_tocar_el_detector

go_to_next ==
    /\ navegacion' =
          IF navegacion.total_pairs > 0
          THEN [navegacion EXCEPT !.current_pair = (@ + 1) % navegacion.total_pairs]
          ELSE navegacion
    /\ operacion' = "go_to_next"
    /\ sin_tocar_el_detector

go_to_previous ==
    /\ navegacion' =
          IF navegacion.total_pairs > 0
          THEN [navegacion EXCEPT !.current_pair = (@ - 1) % navegacion.total_pairs]
          ELSE navegacion
    /\ operacion' = "go_to_previous"
    /\ sin_tocar_el_detector

\* del pairs_list[current_index], current_index counted from 0
sin_el_par(pairs_list, current_index) ==
    SubSeq(pairs_list, 1, current_index)
        \o SubSeq(pairs_list, current_index + 2, Len(pairs_list))

\* variant: the index is left where it was
indice_sin_ajustar(current_index, pairs_list) == current_index

\* the index after the deletion, pairs_list being the list without the pair
indice_tras_eliminar(current_index, pairs_list) ==
    IF current_index >= Len(pairs_list) /\ Len(pairs_list) > 0
    THEN Len(pairs_list) - 1
    ELSE IF Len(pairs_list) = 0 THEN 0 ELSE current_index

_delete_current_pair ==
    LET current_index == navegacion.current_pair
    IN  /\ navegacion' =
              IF 0 <= current_index /\ current_index < Len(navegacion.pairs_list)
              THEN LET pairs_list == sin_el_par(navegacion.pairs_list, current_index)
                   IN  [navegacion EXCEPT
                           !.pairs_list = pairs_list,
                           !.total_pairs = Len(pairs_list),
                           !.duplicados = pairs_list,
                           !.runtime_total_pairs = Len(pairs_list),
                           !.current_pair = indice_tras_eliminar(current_index, pairs_list)]
              ELSE navegacion
        /\ operacion' = "_delete_current_pair"
        /\ sin_tocar_el_detector

NextNavegacion ==
    \/ \E pairs_list \in ListasDePares : set_pairs_list(pairs_list)
    \/ \E index \in Indices : go_to_pair(index)
    \/ go_to_next
    \/ go_to_previous
    \/ _delete_current_pair

SpecNavegacion == InitNavegacion /\ [][NextNavegacion]_vars

(***************************************************************************)
(* Vocabulary of the properties.  The matching predicate is written out    *)
(* from the statement of the properties, on the state of the last call.    *)
(***************************************************************************)
Grupos == 1..Len(retorno)
Miembros(g) == 1..Len(retorno[g])

\* position of a path in the scan list
Pos(archivo) == CHOOSE i \in 1..Len(peliculas) : peliculas[i].archivo = archivo

\* both records carry the same known year, or both have none
MismoCubo(p, q) == IF p.anio > 0 THEN q.anio = p.anio ELSE q.anio <= 0

\* position at which the year bucket of a record first occurs in the scan list
PrimeraDelCubo(p) ==
    Minimo({i \in 1..Len(peliculas) : MismoCubo(p, peliculas[i])})

SimilitudAlcanza(a, m, umbral) ==
    LET sim == similitud(a.titulo, m.titulo)
    IN  sim.num * 100 >= umbral * sim.den

AniosCompatibles(a, m) ==
    a.anio = 0 \/ m.anio = 0 \/ (a.anio - m.anio \in {-1, 0, 1})

DuracionCompatible(a, m) ==
    (settings.duration_filter_enabled /\ a.duracion > 0 /\ m.duracion > 0)
        => /\ a.duracion - m.duracion <= 60 * settings.duration_tolerance_minutes
           /\ m.duracion - a.duracion <= 60 * settings.duration_tolerance_minutes

\* the matching predicate with a as anchor and m as candidate
Cumple(a, m, umbral) ==
    SimilitudAlcanza(a, m, umbral) /\ AniosCompatibles(a, m) /\ DuracionCompatible(a, m)

\* the paths that started a group in the last call, emitted or not
Anclas == {eventos[k].ancla : k \in {n \in 1..Len(eventos) : eventos[n].tipo = "ancla"}}

\* the paths the anchor absorbed
Absorbidas(ancla) ==
    {eventos[k].candidato :
        k \in {n \in 1..Len(eventos) :
                 eventos[n].tipo = "comparar" /\ eventos[n].ancla = ancla
                 /\ eventos[n].coincide}}

\* the paths found in emitted group g
ArchivosDe(g) == {retorno[g][i].archivo : i \in Miembros(g)}

(***************************************************************************)
(* C1: in every group returned by encontrar_duplicados, each member other  *)
(* than the first satisfies the matching predicate against the first       *)
(* member: similarity >= threshold, compatible years and, with the filter  *)
(* on and both durations known, durations within the tolerance.            *)
(***************************************************************************)
C1_MiembrosCumplenContraAncla ==
    llamada.hecha =>
        \A g \in Grupos : \A i \in Miembros(g) :
            i > 1 => Cumple(retorno[g][1], retorno[g][i], llamada.umbral)

\* a group was emitted whose member passed the duration comparison, and a
\* record of the same bucket was kept out of it
C1_Testigo ==
    /\ llamada.hecha
    /\ settings.duration_filter_enabled
    /\ \E g \in Grupos : \E i \in Miembros(g) :
          /\ i > 1
          /\ retorno[g][1].duracion > 0
          /\ retorno[g][i].duracion > 0
          /\ \E n \in 1..Len(peliculas) :
                /\ MismoCubo(retorno[g][1], peliculas[n])
                /\ n > Pos(retorno[g][1].archivo)
                /\ SimilitudAlcanza(retorno[g][1], peliculas[n], llamada.umbral)
                /\ ~DuracionCompatible(retorno[g][1], peliculas[n])

(***************************************************************************)
(* C2: every group emitted by encontrar_duplicados, and stored in          *)
(* self.duplicados by it, has at least 2 members; an anchor that absorbed  *)
(* no record is not emitted as a group.                                    *)
(***************************************************************************)
C2_SinGruposUnitarios ==
    llamada.hecha =>
        /\ \A g \in Grupos : Len(retorno[g]) >= 2
        /\ \A g \in 1..Len(duplicados) : Len(duplicados[g]) >= 2
        /\ \A a \in Anclas :
              Absorbidas(a) = {} => \A g \in Grupos : retorno[g][1].archivo # a

\* a call that emitted a group and dropped a lone anchor
C2_Testigo ==
    /\ llamada.hecha
    /\ retorno # <<>>
    /\ duplicados = retorno
    /\ \E a \in Anclas : Absorbidas(a) = {}

(***************************************************************************)
(* C3: for a list with unique paths, no path appears in more than one      *)
(* returned group, nor twice in the same group.                            *)
(***************************************************************************)
C3_GruposDisjuntos ==
    llamada.hecha =>
        /\ \A g \in Grupos : \A i, j \in Miembros(g) :
              i # j => retorno[g][i].archivo # retorno[g][j].archivo
        /\ \A g, h \in Grupos : g # h => ArchivosDe(g) \cap ArchivosDe(h) = {}

\* two groups of one bucket, the second anchored before a member of the first:
\* that member was skipped as processed when the second anchor scanned
C3_Testigo ==
    /\ llamada.hecha
    /\ \E g, h \in Grupos :
          /\ g < h
          /\ MismoCubo(retorno[g][1], retorno[h][1])
          /\ \E i \in Miembros(g) :
                /\ i > 1
                /\ Pos(retorno[h][1].archivo) < Pos(retorno[g][i].archivo)
                /\ Cumple(retorno[h][1], retorno[g][i], llamada.umbral)

(***************************************************************************)
(* C4: all members of an emitted group come from the same year bucket:     *)
(* the same known year, or all unknown; two records with different known   *)
(* years are never in the same group.                                      *)
(***************************************************************************)
C4_GrupoEnUnSoloCubo ==
    llamada.hecha =>
        \A g \in Grupos : \A i, j \in Miembros(g) :
            /\ MismoCubo(retorno[g][i], retorno[g][j])
            /\ (retorno[g][i].anio > 0 /\ retorno[g][j].anio > 0)
                  => retorno[g][i].anio = retorno[g][j].anio

\* a group was emitted while a record of the next year, matching its anchor
\* in title and duration, stayed out of it
C4_Testigo ==
    /\ llamada.hecha
    /\ \E g \in Grupos : \E n \in 1..Len(peliculas) :
          /\ retorno[g][1].anio > 0
          /\ peliculas[n].anio > 0
          /\ peliculas[n].anio # retorno[g][1].anio
          /\ Pos(retorno[g][1].archivo) < n
          /\ Cumple(retorno[g][1], peliculas[n], llamada.umbral)
          /\ peliculas[n].archivo \notin ArchivosDe(g)

(***************************************************************************)
(* C5: year wildcard: a record with year 0 joins a group anchored by a     *)
(* record with a known year, and a record with a known year joins a group  *)
(* anchored by a record with year 0, whenever the title similarity reaches *)
(* the threshold and the durations are compatible.  Stated for the first   *)
(* record of the list, which is always an anchor and which no earlier      *)
(* anchor can rob of a candidate.                                          *)
(***************************************************************************)
C5_ComodinDeAnio ==
    (llamada.hecha /\ peliculas # <<>>) =>
        \A n \in 2..Len(peliculas) :
            ( /\ (peliculas[1].anio = 0) # (peliculas[n].anio = 0)
              /\ Cumple(peliculas[1], peliculas[n], llamada.umbral) )
            => \E g \in Grupos :
                  /\ retorno[g][1].archivo = peliculas[1].archivo
                  /\ peliculas[n].archivo \in ArchivosDe(g)

(***************************************************************************)
(* C6: membership is decided against the anchor only: if record C matches  *)
(* member B of the group anchored by A but does not match A, then C is not *)
(* a member of that group.                                                 *)
(***************************************************************************)
C6_SoloContraElAncla ==
    llamada.hecha =>
        \A g \in Grupos : \A i \in Miembros(g) : \A n \in 1..Len(peliculas) :
            ( /\ i > 1
              /\ peliculas[n].archivo # retorno[g][1].archivo
              /\ Cumple(retorno[g][i], peliculas[n], llamada.umbral)
              /\ ~Cumple(retorno[g][1], peliculas[n], llamada.umbral) )
            => peliculas[n].archivo \notin ArchivosDe(g)

\* B was absorbed by A, and a later record C of the bucket matches B but not A
C6_Testigo ==
    /\ llamada.hecha
    /\ \E g \in Grupos : \E i \in Miembros(g) : \E n \in 1..Len(peliculas) :
          /\ i > 1
          /\ MismoCubo(retorno[g][1], peliculas[n])
          /\ Pos(retorno[g][i].archivo) < n
          /\ Cumple(retorno[g][i], peliculas[n], llamada.umbral)
          /\ ~Cumple(retorno[g][1], peliculas[n], llamada.umbral)

(***************************************************************************)
(* C7: assignment is greedy and irrevocable: a record that was taken as an *)
(* anchor or appended to a group is never compared as a candidate again    *)
(* nor taken as an anchor again, and it stays in the group it joined; a    *)
(* record that satisfies the matching predicate against several anchors    *)
(* that precede it in its bucket is in the group of the earliest of them,  *)
(* whatever the similarity scores of the later ones.                       *)
(***************************************************************************)
\* the record of event k had been taken as anchor or appended before event k
ProcesadaAntes(archivo, k) ==
    \E m \in 1..(k - 1) :
        \/ eventos[m].tipo = "ancla" /\ eventos[m].ancla = archivo
        \/ eventos[m].tipo = "comparar" /\ eventos[m].coincide
           /\ eventos[m].candidato = archivo

\* the anchors that precede record n in its bucket and that it matches
AnclasPreviasQueCumple(n) ==
    {a \in Anclas :
        /\ Pos(a) < n
        /\ MismoCubo(peliculas[Pos(a)], peliculas[n])
        /\ Cumple(peliculas[Pos(a)], peliculas[n], llamada.umbral)}

C7_AsignacionVorazIrrevocable ==
    llamada.hecha =>
        /\ \A k \in 1..Len(eventos) : ~ProcesadaAntes(eventos[k].candidato, k)
        /\ \A k \in 1..Len(eventos) :
              (eventos[k].tipo = "comparar" /\ eventos[k].coincide) =>
                  \A g \in Grupos :
                      eventos[k].candidato \in ArchivosDe(g)
                          <=> retorno[g][1].archivo = eventos[k].ancla
        /\ \A n \in 1..Len(peliculas) :
              AnclasPreviasQueCumple(n) # {} =>
                  LET primera ==
                          CHOOSE a \in AnclasPreviasQueCumple(n) :
                              \A b \in AnclasPreviasQueCumple(n) : Pos(a) <= Pos(b)
                  IN  \E g \in Grupos :
                          /\ retorno[g][1].archivo = primera
                          /\ peliculas[n].archivo \in ArchivosDe(g)

\* a record sits in the group of its earliest matching anchor although a
\* later anchor, also before it in the list, scores strictly higher
C7_Testigo ==
    /\ llamada.hecha
    /\ \E n \in 1..Len(peliculas) : \E a, b \in AnclasPreviasQueCumple(n) :
          /\ Pos(a) < Pos(b)
          /\ LET sa == similitud(peliculas[Pos(a)].titulo, peliculas[n].titulo)
                 sb == similitud(peliculas[Pos(b)].titulo, peliculas[n].titulo)
             IN  sb.num * sa.den > sa.num * sb.den
          /\ \E g \in Grupos :
                /\ retorno[g][1].archivo = a
                /\ peliculas[n].archivo \in ArchivosDe(g)

(***************************************************************************)
(* C8: threshold monotonicity, as stated: for a fixed record list and      *)
(* fixed duration settings, a threshold t2 >= t1 never gives more groups   *)
(* than t1.                                                                *)
(***************************************************************************)
\* the groups encontrar_duplicados returns for the current list at threshold u
GruposCon(u) ==
    IF peliculas = <<>> THEN <<>> ELSE agrupar(peliculas, duplicados, u, settings).duplicados

UmbralesDesde(u) == {u2 \in Umbrales : u2 >= u}

C8_MonotoniaDelUmbral ==
    llamada.hecha =>
        \A u2 \in UmbralesDesde(llamada.umbral) : Len(GruposCon(u2)) <= Len(retorno)

\* the groups of gs whose anchor lies in the bucket of record p
EnCubo(gs, p) == {g \in 1..Len(gs) : MismoCubo(p, gs[g][1])}

TamanioDelCubo(p) ==
    Cardinality({n \in 1..Len(peliculas) : MismoCubo(p, peliculas[n])})

(***************************************************************************)
(* C8, amended: for a fixed record list and fixed duration settings, if    *)
(* t1 <= t2 then a year bucket that yields no group at t1 yields none at   *)
(* t2, and a bucket of at most 3 records never yields more groups at t2    *)
(* than at t1.  (A bucket of 4 records can yield one group at t1 and two   *)
(* at t2.)                                                                 *)
(***************************************************************************)
C8_MonotoniaPorCubo ==
    llamada.hecha =>
        \A u2 \in UmbralesDesde(llamada.umbral) :
            LET otros == GruposCon(u2)
            IN  \A n \in 1..Len(peliculas) :
                    /\ EnCubo(retorno, peliculas[n]) = {}
                          => EnCubo(otros, peliculas[n]) = {}
                    /\ TamanioDelCubo(peliculas[n]) <= 3
                          => Cardinality(EnCubo(otros, peliculas[n]))
                                <= Cardinality(EnCubo(retorno, peliculas[n]))

\* at a higher threshold one bucket of 2 or 3 records loses its group while
\* another bucket of 2 or more records had none to begin with
C8_Testigo ==
    /\ llamada.hecha
    /\ \E u2 \in UmbralesDesde(llamada.umbral) : \E n, m \in 1..Len(peliculas) :
          /\ u2 > llamada.umbral
          /\ TamanioDelCubo(peliculas[n]) \in {2, 3}
          /\ EnCubo(retorno, peliculas[n]) # {}
          /\ EnCubo(GruposCon(u2), peliculas[n]) = {}
          /\ TamanioDelCubo(peliculas[m]) >= 2
          /\ EnCubo(retorno, peliculas[m]) = {}

(***************************************************************************)
(* C9: calling encontrar_duplicados twice in a row with the same record    *)
(* list, threshold and duration settings returns the same list of groups,  *)
(* in the same order with the same members; the first call leaves nothing  *)
(* behind that changes the second.                                         *)
(***************************************************************************)
C9_LlamadaRepetidaDaLoMismo ==
    [][ (llamada.hecha /\ llamada'.hecha /\ llamada'.umbral = llamada.umbral
         /\ peliculas' = peliculas /\ settings' = settings)
        => (retorno' = retorno /\ duplicados' = duplicados) ]_vars

\* a second call in a row with the same threshold has returned two groups
C9_Testigo ==
    /\ llamada.repetida
    /\ Len(retorno) >= 2
    /\ duplicados = retorno

(***************************************************************************)
(* C10: groups are emitted in the order their anchors are discovered:      *)
(* buckets in the order in which their year first occurs in the scan list, *)
(* anchors of one bucket in scan order; in each group the anchor is first  *)
(* and the members follow in scan order.                                   *)
(***************************************************************************)
C10_OrdenDeSalida ==
    llamada.hecha =>
        /\ \A g, h \in Grupos :
              g < h =>
                  \/ PrimeraDelCubo(retorno[g][1]) < PrimeraDelCubo(retorno[h][1])
                  \/ /\ MismoCubo(retorno[g][1], retorno[h][1])
                     /\ Pos(retorno[g][1].archivo) < Pos(retorno[h][1].archivo)
        /\ \A g \in Grupos : \A i, j \in Miembros(g) :
              i < j => Pos(retorno[g][i].archivo) < Pos(retorno[g][j].archivo)

\* two groups of different buckets came out in discovery order, against the
\* order of their years, the later group lying between the members of the
\* earlier one in the scan list
C10_Testigo ==
    /\ llamada.hecha
    /\ \E g, h \in Grupos :
          /\ g < h
          /\ ~MismoCubo(retorno[g][1], retorno[h][1])
          /\ retorno[g][1].anio > retorno[h][1].anio
          /\ \E i \in Miembros(g) :
                Pos(retorno[h][1].archivo) < Pos(retorno[g][i].archivo)

(***************************************************************************)
(* C11: when the duration of either record of a compared pair is 0, or the *)
(* duration filter is disabled, the pair is duration-compatible: the       *)
(* comparison succeeds exactly when the title similarity reaches the       *)
(* threshold and the years are compatible.                                 *)
(***************************************************************************)
\* the record of the scan list with the given path
RegistroDe(archivo) == peliculas[Pos(archivo)]

SinFiltroDeDuracion(a, m) ==
    a.duracion = 0 \/ m.duracion = 0 \/ ~settings.duration_filter_enabled

C11_DuracionDesconocidaNoFiltra ==
    llamada.hecha =>
        \A k \in 1..Len(eventos) :
            eventos[k].tipo = "comparar" =>
                LET a == RegistroDe(eventos[k].ancla)
                    m == RegistroDe(eventos[k].candidato)
                IN  SinFiltroDeDuracion(a, m) =>
                        (eventos[k].coincide <=>
                            (SimilitudAlcanza(a, m, llamada.umbral) /\ AniosCompatibles(a, m)))

\* with the filter on, one anchor absorbed a record across a missing duration
\* and rejected another one, similar enough, for its known duration
C11_Testigo ==
    /\ llamada.hecha
    /\ settings.duration_filter_enabled
    /\ \E k, n \in 1..Len(eventos) :
          /\ eventos[k].tipo = "comparar"
          /\ eventos[n].tipo = "comparar"
          /\ eventos[k].ancla = eventos[n].ancla
          /\ eventos[k].coincide
          /\ (RegistroDe(eventos[k].ancla).duracion = 0)
                # (RegistroDe(eventos[k].candidato).duracion = 0)
          /\ ~eventos[n].coincide
          /\ SimilitudAlcanza(RegistroDe(eventos[n].ancla),
                              RegistroDe(eventos[n].candidato), llamada.umbral)

(***************************************************************************)
(* C12: encontrar_duplicados treats the record list as read-only: a call   *)
(* leaves self.peliculas with the same records in the same order with the  *)
(* same fields, and of the detector's state it changes only                *)
(* self.duplicados.                                                        *)
(***************************************************************************)
C12_ListaDeSoloLectura ==
    [][ operacion' = "encontrar_duplicados" =>
            (peliculas' = peliculas /\ carpeta_raiz' = carpeta_raiz) ]_vars

\* a call on a scanned list stored a group and left a record ungrouped
C12_Testigo ==
    /\ operacion = "encontrar_duplicados"
    /\ duplicados # <<>>
    /\ duplicados = retorno
    /\ \E n \in 1..Len(peliculas) :
          \A g \in Grupos : peliculas[n].archivo \notin ArchivosDe(g)

(***************************************************************************)
(* C13: encontrar_duplicados on an empty record list returns an empty      *)
(* list.                                                                   *)
(***************************************************************************)
C13_ListaVaciaDaListaVacia ==
    (operacion = "encontrar_duplicados" /\ peliculas = <<>>) => retorno = <<>>

\* a call on an empty list, made while groups of an earlier list were stored
C13_Testigo ==
    /\ operacion = "encontrar_duplicados"
    /\ peliculas = <<>>
    /\ duplicados # <<>>
    /\ retorno = <<>>

(***************************************************************************)
(* C14, as stated: a record whose fields are all default (empty title,     *)
(* year 0, size 0, duration 0) never matches anything: whatever the list   *)
(* and the threshold in [0,1], it is in no emitted group.                  *)
(***************************************************************************)
TodoPorDefecto(p) ==
    p.titulo = <<>> /\ p.anio = 0 /\ p.tamanio = 0 /\ p.duracion = 0

\* the groups of the last call that hold a record with all fields default
GruposConVacio == {g \in Grupos : \E i \in Miembros(g) : TodoPorDefecto(retorno[g][i])}

C14_VacioNuncaAgrupado ==
    llamada.hecha => GruposConVacio = {}

(***************************************************************************)
(* C14, amended: a record whose fields are all default is in an emitted    *)
(* group only if the threshold is 0 or every member of the group has an    *)
(* empty normalized title (two empty normalized titles score 1.0).         *)
(***************************************************************************)
C14_VacioSoloConVacios ==
    llamada.hecha =>
        \A g \in GruposConVacio :
            \/ llamada.umbral = 0
            \/ \A i \in Miembros(g) : normalizar_titulo(retorno[g][i].titulo) = <<>>

\* at a threshold above 0 the record with all fields default was grouped with
\* a record whose title is a stopword, and a titled record scanned with them
\* stayed out
C14_Testigo ==
    /\ llamada.hecha
    /\ llamada.umbral > 0
    /\ \E g \in GruposConVacio : \E i \in Miembros(g) : retorno[g][i].titulo # <<>>
    /\ \E n \in 1..Len(peliculas) :
          /\ normalizar_titulo(peliculas[n].titulo) # <<>>
          /\ \A g \in Grupos : peliculas[n].archivo \notin ArchivosDe(g)

(***************************************************************************)
(* C15, as stated: with a similarity threshold of 0 every year bucket that *)
(* holds at least 2 records yields exactly one group, and that group       *)
(* contains all the records of the bucket.                                 *)
(***************************************************************************)
\* the records of the bucket of p, as paths
ArchivosDelCubo(p) ==
    {peliculas[m].archivo : m \in {n \in 1..Len(peliculas) : MismoCubo(p, peliculas[n])}}

\* the bucket of p came out as one group that holds the whole bucket
CuboEnUnGrupo(p) ==
    /\ Cardinality(EnCubo(retorno, p)) = 1
    /\ \A g \in EnCubo(retorno, p) : ArchivosDe(g) = ArchivosDelCubo(p)

CuboCompatibleEnDuracion(p) ==
    \A m \in 1..Len(peliculas) :
        MismoCubo(p, peliculas[m])
            => DuracionCompatible(peliculas[PrimeraDelCubo(p)], peliculas[m])

MismoValor(x, y) == x.num * y.den = y.num * x.den

C16_SimilitudSimetrica ==
    (calculo.funcion = "similitud_titulos" /\ calculo.hecho) =>
        MismoValor(calculo.salida,
                   similitud_titulos(calculo.entrada[2], calculo.entrada[1]))

(***************************************************************************)
(* C17: similitud_titulos is reflexive with value 1.0:                     *)
(* similitud_titulos(a, a) = 1.0 for every title a, including the titles   *)
(* whose normalized form is the empty string.                              *)
(***************************************************************************)
C17_SimilitudReflexiva ==
    (calculo.funcion = "similitud_titulos" /\ calculo.hecho
     /\ calculo.entrada[1] = calculo.entrada[2]) =>
        MismoValor(calculo.salida, [num |-> 1, den |-> 1])

\* a title made of a stopword, whose normalized form is empty, was compared
\* with itself
C17_Testigo ==
    /\ calculo.funcion = "similitud_titulos"
    /\ calculo.hecho
    /\ calculo.entrada[1] = calculo.entrada[2]
    /\ calculo.entrada[1] # <<>>
    /\ normalizar_titulo(calculo.entrada[1]) = <<>>
    /\ calculo.salida.den = 1

(***************************************************************************)
(* C18: get_estadisticas is a pure derivation from the current record list *)
(* and group list: total_peliculas = len(peliculas), total_duplicados =    *)
(* the sum of the group lengths, grupos_duplicados = the number of groups, *)
(* and espacio_duplicado = the sum of the sizes of every group member      *)
(* except the first member of its group.                                   *)
(***************************************************************************)
\* the sum of the values of a function over a finite set of its arguments
RECURSIVE SumaSobre(_, _)
SumaSobre(S, f) ==
    IF S = {} THEN 0
    ELSE LET x == CHOOSE y \in S : TRUE
         IN  f[x] + SumaSobre(S \ {x}, f)

LargoDelGrupo == [g \in 1..Len(duplicados) |-> Len(duplicados[g])]
TamanioSinElPrimero ==
    [g \in 1..Len(duplicados) |->
        SumaSobre(2..Len(duplicados[g]),
                  [i \in 2..Len(duplicados[g]) |-> duplicados[g][i].tamanio])]

C18_EstadisticasDerivadas ==
    operacion = "get_estadisticas" =>
        /\ estadisticas.total_peliculas = Len(peliculas)
        /\ estadisticas.total_duplicados = SumaSobre(1..Len(duplicados), LargoDelGrupo)
        /\ estadisticas.grupos_duplicados = Len(duplicados)
        /\ estadisticas.espacio_duplicado = SumaSobre(1..Len(duplicados), TamanioSinElPrimero)

(***************************************************************************)
(* C19: extraer_año searches for a parenthesised 4-digit year, then a      *)
(* bracketed one, then a bare 4-digit word, and accepts a candidate only   *)
(* if 1900 <= year <= 2030: the result is 0 or a value in [1900, 2030],    *)
(* and an in-range parenthesised year wins over any bracketed or bare      *)
(* 4-digit number, wherever these appear in the file name.                 *)
(***************************************************************************)
\* four digits written between the two characters, the first of them at i
EscritoEntre(n, i, abre, cierra) ==
    /\ i + 5 <= Len(n)
    /\ n[i] = abre
    /\ \A k \in 1..4 : n[i + k] \in Digitos
    /\ n[i + 5] = cierra

Cifra(c) == CHOOSE d \in 0..9 : <<"0","1","2","3","4","5","6","7","8","9">>[d + 1] = c

\* the number written by the four digits that follow position i
NumeroTras(n, i) ==
    1000 * Cifra(n[i + 1]) + 100 * Cifra(n[i + 2]) + 10 * Cifra(n[i + 3]) + Cifra(n[i + 4])

EnRango(a) == 1900 <= a /\ a <= 2030

\* the years in range written in parentheses in the name
AniosEntreParentesis(n) ==
    {a \in {NumeroTras(n, i) : i \in {j \in 1..Len(n) : EscritoEntre(n, j, "(", ")")}} :
        EnRango(a)}

C19_AnioPorPrioridad ==
    (calculo.funcion = "analizar_nombre" /\ calculo.hecho) =>
        /\ calculo.salida.anio = 0 \/ EnRango(calculo.salida.anio)
        /\ AniosEntreParentesis(calculo.entrada) # {}
              => calculo.salida.anio \in AniosEntreParentesis(calculo.entrada)

(***************************************************************************)
(* C20: extraer_titulo_pelicula applies the title rules in the fixed order *)
(* Title (YYYY), Title [YYYY], Title YYYY, Title - rest to the stem and    *)
(* uses the first rule that matches: for a file name 'T (YYYY) tags.ext',  *)
(* T being made of words of letters separated by single blanks, the parsed *)
(* title is T, whatever the tags, and the parsed year is YYYY when it is   *)
(* in range.                                                               *)
(***************************************************************************)
Letras == Rango(Mayusculas) \cup Rango(Minusculas)

\* words of letters separated by single blanks
TituloSimple(t) ==
    /\ t # <<>>
    /\ \A i \in 1..Len(t) : t[i] \in Letras \cup {" "}
    /\ t[1] \in Letras
    /\ t[Len(t)] \in Letras
    /\ \A i \in 1..(Len(t) - 1) : ~(t[i] = " " /\ t[i + 1] = " ")

\* the positions q such that the name is T, a blank, (YYYY) at q, and the rest
FormasTituloAnio(n) ==
    {q \in 3..Len(n) :
        /\ EscritoEntre(n, q, "(", ")")
        /\ n[q - 1] = " "
        /\ TituloSimple(SubSeq(n, 1, q - 2))}

C20_TituloYAnioDeLaForma ==
    (calculo.funcion = "analizar_nombre" /\ calculo.hecho) =>
        \A q \in FormasTituloAnio(calculo.entrada) :
            /\ calculo.salida.titulo = SubSeq(calculo.entrada, 1, q - 2)
            /\ EnRango(NumeroTras(calculo.entrada, q))
                  => calculo.salida.anio = NumeroTras(calculo.entrada, q)

\* a title of two words and its year in parentheses were parsed out of a
\* name in which a bracketed year follows, so that the second rule matches
\* as well
C20_Testigo ==
    /\ calculo.funcion = "analizar_nombre"
    /\ calculo.hecho
    /\ \E q \in FormasTituloAnio(calculo.entrada) :
          /\ \E i \in 1..(q - 2) : calculo.entrada[i] = " "
          /\ \E j \in (q + 6)..Len(calculo.entrada) : EscritoEntre(calculo.entrada, j, "[", "]")
          /\ calculo.salida.anio = NumeroTras(calculo.entrada, q)
          /\ calculo.salida.titulo = SubSeq(calculo.entrada, 1, q - 2)

(***************************************************************************)
(* C21: formatear_tamaño converts a byte count n >= 0 to the unit of       *)
(* B, KB, MB, GB, TB, PB in which its value is below 1024: B for           *)
(* n < 1024, KB for 1024 <= n < 1024^2, MB, GB and TB likewise, and PB for *)
(* every n >= 1024^5.                                                      *)
(***************************************************************************)
\* n < 1024^k, for the byte count n of the digits
MenorQuePotencia(cifras, k) == \A i \in (k + 1)..Len(cifras) : cifras[i] = 0

UnidadDelRango(cifras) ==
    IF MenorQuePotencia(cifras, 1) THEN "B"
    ELSE IF MenorQuePotencia(cifras, 2) THEN "KB"
    ELSE IF MenorQuePotencia(cifras, 3) THEN "MB"
    ELSE IF MenorQuePotencia(cifras, 4) THEN "GB"
    ELSE IF MenorQuePotencia(cifras, 5) THEN "TB"
    ELSE "PB"

C21_UnidadPorRango ==
    (calculo.funcion = "formatear_tamaño" /\ calculo.hecho) =>
        calculo.salida.unidad = UnidadDelRango(calculo.entrada)

\* 1024^5 bytes were formatted as 1.0 PB
C21_Testigo ==
    /\ calculo.funcion = "formatear_tamaño"
    /\ calculo.hecho
    /\ calculo.entrada = <<0, 0, 0, 0, 0, 1>>
    /\ calculo.salida = [decimas |-> 10, unidad |-> "PB"]

(***************************************************************************)
(* C22: the stored groups always belong to the latest scan: after any      *)
(* sequence of set_carpeta_raiz, escanear_carpeta and encontrar_duplicados *)
(* calls on one detector, once encontrar_duplicados returns,               *)
(* self.duplicados equals the list it returned and holds only records of   *)
(* the current self.peliculas, also when the new scan found no files.      *)
(***************************************************************************)
RegistrosAgrupados == UNION {Rango(duplicados[g]) : g \in 1..Len(duplicados)}

C22_GruposDelUltimoEscaneo ==
    operacion = "encontrar_duplicados" =>
        /\ duplicados = retorno
        /\ RegistrosAgrupados \subseteq Rango(peliculas)

(***************************************************************************)
(* C23: records are scan-scoped: whenever escanear_carpeta returns, with   *)
(* or without a folder argument and on every return path (no root          *)
(* configured, root folder missing, normal scan), self.peliculas equals    *)
(* the list returned by that call.                                         *)
(***************************************************************************)
C23_RegistrosDelUltimoEscaneo ==
    operacion = "escanear_carpeta" => peliculas = retorno_escaneo

(***************************************************************************)
(* C24: two records of the same year bucket whose titles normalize to the  *)
(* same string, both with duration unset, end up in the same emitted       *)
(* group for any threshold <= 1.0, whatever other records are in the list  *)
(* and whatever their order.                                               *)
(***************************************************************************)
MismoTituloNormalizado(p, q) == normalizar_titulo(p.titulo) = normalizar_titulo(q.titulo)

EnUnMismoGrupo(p, q) ==
    \E g \in Grupos : \E i, j \in Miembros(g) : retorno[g][i] = p /\ retorno[g][j] = q

C24_MismoTituloMismoGrupo ==
    (operacion = "encontrar_duplicados" /\ llamada.umbral <= 100) =>
        \A i, j \in 1..Len(peliculas) :
            ( /\ i # j
              /\ MismoCubo(peliculas[i], peliculas[j])
              /\ MismoTituloNormalizado(peliculas[i], peliculas[j])
              /\ peliculas[i].duracion = 0
              /\ peliculas[j].duracion = 0 )
            => EnUnMismoGrupo(peliculas[i], peliculas[j])

\* two records whose titles differ and normalize to the same string were
\* absorbed by an earlier record of their bucket with another title
C24_Testigo ==
    /\ operacion = "encontrar_duplicados"
    /\ \E g \in Grupos : \E i, j \in Miembros(g) :
          /\ 1 < i
          /\ i < j
          /\ retorno[g][i].titulo # retorno[g][j].titulo
          /\ MismoTituloNormalizado(retorno[g][i], retorno[g][j])
          /\ ~MismoTituloNormalizado(retorno[g][1], retorno[g][i])
          /\ retorno[g][i].duracion = 0
          /\ retorno[g][j].duracion = 0

(***************************************************************************)
(* C25, as stated: with the duration filter enabled, records whose         *)
(* durations are both > 0 and differ by more than                          *)
(* duration_tolerance_minutes are not grouped: no emitted group contains   *)
(* two such records, for any input list.                                   *)
(***************************************************************************)
\* both durations known and more than the tolerance apart
LejosEnDuracion(p, q) ==
    /\ p.duracion > 0
    /\ q.duracion > 0
    /\ \/ p.duracion - q.duracion > 60 * settings.duration_tolerance_minutes
       \/ q.duracion - p.duracion > 60 * settings.duration_tolerance_minutes

GruposQueAbsorben(p) ==
    {g \in Grupos : \E i \in Miembros(g) : i > 1 /\ retorno[g][i] = p}

SinGrupo(p) == \A g \in Grupos : \A i \in Miembros(g) : retorno[g][i] # p

C26_AnclasNoCoinciden ==
    llamada.hecha =>
        \A i, j \in 1..Len(peliculas) :
            (i < j /\ MismoCubo(peliculas[i], peliculas[j])) =>
                /\ (GruposQueAbsorben(peliculas[i]) = {} /\ GruposQueAbsorben(peliculas[j]) = {})
                      => ~Cumple(peliculas[i], peliculas[j], llamada.umbral)
                /\ ( /\ SinGrupo(peliculas[i])
                     /\ \A g \in GruposQueAbsorben(peliculas[j]) :
                            Pos(retorno[g][1].archivo) > i )
                      => ~Cumple(peliculas[i], peliculas[j], llamada.umbral)

\* two groups of one bucket were emitted, and the anchor of the first was
\* compared with the anchor of the second
C26_Testigo ==
    /\ llamada.hecha
    /\ \E g, h \in Grupos :
          /\ g < h
          /\ MismoCubo(retorno[g][1], retorno[h][1])
          /\ \E n \in 1..Len(eventos) :
                /\ eventos[n].tipo = "comparar"
                /\ eventos[n].ancla = retorno[g][1].archivo
                /\ eventos[n].candidato = retorno[h][1].archivo
                /\ ~eventos[n].coincide

(***************************************************************************)
(* C27: in every state reachable by any sequence of set_carpeta_raiz,      *)
(* escanear_carpeta and encontrar_duplicados calls on one detector, the    *)
(* statistics are consistent: 2 * grupos_duplicados <= total_duplicados    *)
(* <= total_peliculas, and espacio_duplicado <= the total size of the      *)
(* records in self.peliculas.                                              *)
(***************************************************************************)
TamanioDe == [i \in 1..Len(peliculas) |-> peliculas[i].tamanio]

C27_EstadisticasConsistentes ==
    operacion = "get_estadisticas" =>
        /\ 2 * estadisticas.grupos_duplicados <= estadisticas.total_duplicados
        /\ estadisticas.total_duplicados <= estadisticas.total_peliculas
        /\ estadisticas.espacio_duplicado <= SumaSobre(1..Len(peliculas), TamanioDe)

(***************************************************************************)
(* C28: every record produced by escanear_carpeta (through                 *)
(* analizar_archivo) has duracion = 0, so for a list produced by a scan    *)
(* the duration filter never rejects a pair: encontrar_duplicados returns  *)
(* the same groups with the duration filter enabled as with it disabled,   *)
(* for any tolerance value.                                                *)
(***************************************************************************)
\* the filter on and off, with tolerances of 0, 5 and 120 minutes
OtrasConfiguraciones ==
    { [duration_filter_enabled |-> f, duration_tolerance_minutes |-> t] :
      f \in BOOLEAN, t \in {0, 5, 120} }

GruposBajo(cfg) ==
    IF peliculas = <<>> THEN <<>>
    ELSE agrupar(peliculas, <<>>, llamada.umbral, cfg).duplicados

C28_FiltroSinEfectoTrasEscanear ==
    /\ operacion = "escanear_carpeta" =>
          \A i \in 1..Len(retorno_escaneo) : retorno_escaneo[i].duracion = 0
    /\ \A i \in 1..Len(peliculas) : peliculas[i].duracion = 0
    /\ operacion = "encontrar_duplicados" =>
          \A cfg \in OtrasConfiguraciones : retorno = GruposBajo(cfg)

\* with the filter on, groups were found in the records of a scan
C28_Testigo ==
    /\ operacion = "encontrar_duplicados"
    /\ settings.duration_filter_enabled
    /\ retorno # <<>>
    /\ \A i \in 1..Len(peliculas) : peliculas[i].duracion = 0
    /\ retorno = GruposBajo([settings EXCEPT !.duration_filter_enabled = FALSE])

(***************************************************************************)
(* C29: normalizar_titulo is idempotent and its output is free of          *)
(* stopwords: for every title t,                                           *)
(* normalizar_titulo(normalizar_titulo(t)) = normalizar_titulo(t), and no  *)
(* whitespace-delimited token of the output is one of el, la, los, las,    *)
(* un, una, the, a, an.                                                    *)
(***************************************************************************)
PalabrasVacias ==
    { <<"e","l">>, <<"l","a">>, <<"l","o","s">>, <<"l","a","s">>, <<"u","n">>,
      <<"u","n","a">>, <<"t","h","e">>, <<"a">>, <<"a","n">> }

\* the maximal runs of non-blank characters of a string
Tokens(s) ==
    { SubSeq(s, p[1], p[2]) :
        p \in { q \in (1..Len(s)) \X (1..Len(s)) :
                  /\ q[1] <= q[2]
                  /\ \A n \in q[1]..q[2] : s[n] # " "
                  /\ (q[1] = 1 \/ s[q[1] - 1] = " ")
                  /\ (q[2] = Len(s) \/ s[q[2] + 1] = " ") } }

C29_NormalizarIdempotente ==
    calculo.funcion = "normalizar_titulo" =>
        /\ \A n \in 1..Len(calculo.salida) : Tokens(calculo.salida[n]) \cap PalabrasVacias = {}
        /\ Len(calculo.salida) = 2 => calculo.salida[2] = calculo.salida[1]

(***************************************************************************)
(* C30: after any sequence of PairNavigationManager operations             *)
(* (set_pairs_list, go_to_pair, go_to_next, go_to_previous,                *)
(* _delete_current_pair), total_pairs equals len(pairs_list), and          *)
(* current_pair is a valid index (0 <= current_pair < total_pairs) when    *)
(* the list is non-empty and 0 when it is empty; go_to_next and            *)
(* go_to_previous wrap around modulo total_pairs, and deleting the last    *)
(* pair of the list moves the index to the new last pair.                  *)
(***************************************************************************)
IndiceValido(nav) ==
    /\ nav.total_pairs = Len(nav.pairs_list)
    /\ IF nav.pairs_list = <<>>
       THEN nav.current_pair = 0
       ELSE 0 <= nav.current_pair /\ nav.current_pair < nav.total_pairs

PasoDeNavegacion ==
    /\ IndiceValido(navegacion)
    /\ IndiceValido(navegacion')
    /\ (operacion' = "go_to_next" /\ navegacion.total_pairs > 0) =>
          navegacion'.current_pair =
              IF navegacion.current_pair = navegacion.total_pairs - 1
              THEN 0 ELSE navegacion.current_pair + 1
    /\ (operacion' = "go_to_previous" /\ navegacion.total_pairs > 0) =>
          navegacion'.current_pair =
              IF navegacion.current_pair = 0
              THEN navegacion.total_pairs - 1 ELSE navegacion.current_pair - 1
    /\ ( /\ operacion' = "_delete_current_pair"
         /\ Len(navegacion.pairs_list) > 1
         /\ navegacion.current_pair = Len(navegacion.pairs_list) - 1 ) =>
          /\ navegacion'.pairs_list =
                SubSeq(navegacion.pairs_list, 1, Len(navegacion.pairs_list) - 1)
          /\ navegacion'.current_pair = Len(navegacion'.pairs_list) - 1

C30_IndiceSiempreValido == [][PasoDeNavegacion]_vars

\* the last pair of a list of three was deleted and the index is on the
\* new last pair
C30_Testigo ==
    /\ operacion = "_delete_current_pair"
    /\ navegacion.original_total_pairs = 3
    /\ Len(navegacion.pairs_list) = 2
    /\ navegacion.current_pair = 1

============================================================================
